---------------------------- MODULE Spec2Model ----------------------------
(***************************************************************************)
(* Client of the INSPIRE validator service: the three scripts              *)
(*   New_Validatoe_Inspiah.py  ("New"),                                    *)
(*   validatorInpire.py        ("Inspire"),                                *)
(*   my_validator.py           ("My").                                     *)
(* The model follows the scripts statement by statement: suite catalog,    *)
(* test object, submit (start_test_run), poll loop (wait_until_finished),  *)
(* report download.  The remote service is the environment: it answers     *)
(* every request with a reply drawn from a finite set of payload shapes,   *)
(* after a latency drawn from a finite set.                                *)
(*                                                                         *)
(* Python values are written as strings: None is "None", the number 7 is   *)
(* "#7", and a dictionary key that is not there is "<absent>".             *)
(***************************************************************************)
EXTENDS Integers, Sequences, FiniteSets, TLC

\* ------------------------------------------------------------ constants
\* seconds between status checks
POLL_EVERY == 5
\* overall deadline of the poll loop, seconds
POLL_TIMEOUT == 25 * 60
\* timeout= of the status request of New_Validatoe_Inspiah.py
HTTP_TIMEOUT == 60

\* ------------------------------------------------------------ bounds
\* validatorInpire.py gives its requests no timeout: a reply may take any
\* time; the model lets it take this long.
SlowLatency == 600
\* how many times the poll loop is called against an already-terminal run
MaxCalls == 3

\* ------------------------------------------------------------ Python values
Absent == "<absent>"
None == "None"
Num7 == "#7"
\* marker of an AttributeError raised while evaluating an expression
AttrErr == "<AttributeError>"

\* bool(v): None and "" are false (a missing key reads as None)
Truthy(v) == v \notin {Absent, None, ""}
\* whether v has the str method upper()
IsStr(v) == v \notin {Absent, None, Num7}
\* dict.get(key): None when the key is missing
Get(v) == IF v = Absent THEN None ELSE v
\* str.upper() on the strings of the model
UpperIdentity(s) == s
Upper(s) == IF s = "completed" THEN "COMPLETED" ELSE s

\* A nested JSON member: kind "absent" (no such key), "dict" (an object
\* whose own member is v, or Absent), "list" (an array of one object whose
\* member is v).
Member(kind, v) == [kind |-> kind, v |-> v]
NoMember == Member("absent", Absent)

\* js.get(key, {}).get(inner): {} stands in only for a missing key; a list
\* has no get() and raises AttributeError.
GetNested(m) ==
    CASE m.kind = "absent" -> None
      [] m.kind = "dict"   -> Get(m.v)
      [] OTHER             -> AttrErr

\* ------------------------------------------------------------ status replies
StatusJson(tr, st, ei) == [TestRun |-> tr, status |-> st, EtfItem |-> ei]
NoJs == StatusJson(NoMember, Absent, NoMember)

StatusValues == {"RUNNING", "COMPLETED", "FAILED", "completed", "CANCELED", "", None, Num7}

\* 2xx status replies the service may send
StatusReplies ==
    {StatusJson(NoMember, v, NoMember) : v \in StatusValues}
    \cup {StatusJson(Member("dict", v), Absent, NoMember) :
             v \in {"RUNNING", "COMPLETED", "completed", "", Absent}}
    \cup {StatusJson(NoMember, Absent, Member("dict", v)) :
             v \in {"RUNNING", "FAILED", None, Absent}}
    \cup {NoJs,
          StatusJson(Member("list", "COMPLETED"), Absent, NoMember),
          StatusJson(Member("list", "RUNNING"), "COMPLETED", NoMember),
          StatusJson(Member("dict", "RUNNING"), "COMPLETED", NoMember),
          StatusJson(Member("dict", ""), "FAILED", Member("dict", "RUNNING")),
          StatusJson(NoMember, "RUNNING", Member("list", "RUNNING")),
          StatusJson(NoMember, Absent, Member("list", "FAILED"))}

\* replies of a run whose service-side status is the terminal status st
TerminalReplies(st) ==
    {StatusJson(NoMember, st, NoMember),
     StatusJson(Member("dict", st), Absent, NoMember),
     StatusJson(NoMember, Absent, Member("dict", st))}

\* a or b or c, evaluated left to right and lazily
StatusChain(js) ==
    LET a == GetNested(js.TestRun)
        b == Get(js.status)
    IN  IF a = AttrErr THEN AttrErr
        ELSE IF Truthy(a) THEN a
        ELSE IF Truthy(b) THEN b
        ELSE GetNested(js.EtfItem)

\* New: get_test_run_status returns  ... or "UNKNOWN"
NewStatusAbsentFatal(js) ==
    LET c == StatusChain(js) IN IF Truthy(c) THEN c ELSE AttrErr
NewStatus(js) ==
    LET c == StatusChain(js) IN IF Truthy(c) THEN c ELSE "UNKNOWN"

\* Inspire: wait_until_finished evaluates the chain with no default
InspireStatus(js) == StatusChain(js)

StatusOf(s, js) == IF s = "New" THEN NewStatus(js) ELSE InspireStatus(js)

\* a status reply that names a terminal status (in either spelling the
\* service replies of the model use)
TerminalReply(st) == st \in {"COMPLETED", "FAILED", "completed"}

\* the loop's test   status.upper() in {"COMPLETED", "FAILED"}
\* (Inspire:  status and status.upper() in {...})
UpperRaises(s, st) ==
    IF s = "New" THEN ~IsStr(st) ELSE Truthy(st) /\ ~IsStr(st)
IsFinishedOnlyCompleted(s, st) ==
    (s = "New" \/ Truthy(st)) /\ IsStr(st) /\ st = "COMPLETED"
IsFinished(s, st) ==
    (s = "New" \/ Truthy(st)) /\ IsStr(st) /\ Upper(st) \in {"COMPLETED", "FAILED"}

\* ------------------------------------------------------------ the service
\* run: "ANY" (the run's status is whatever the service says at each poll) or
\* a terminal status the run already has.  slow: every reply takes the
\* longest time the script admits.
Service(run, slow) == [run |-> run, slow |-> slow]
\* whether the script's status request is given a timeout=: New passes
\* timeout=60, Inspire passes none and requests then waits without limit
HasTimeout(s) == s = "New"
MaxLatency(s) == IF s = "New" THEN HTTP_TIMEOUT ELSE SlowLatency
Latencies(s, svc) == IF svc.slow THEN {MaxLatency(s)} ELSE {0, MaxLatency(s)}
RepliesOf(svc) == IF svc.run = "ANY" THEN StatusReplies ELSE TerminalReplies(svc.run)

\* ------------------------------------------------------------ state
VARIABLES
    script,     \* which of the three scripts runs
    entry,      \* "main": the script's main block; "wait": wait_until_finished called
                \* directly; "pair": the two poll loops side by side
    service,    \* the environment's profile
    pc,         \* position in the script
    exc,        \* the uncaught exception that ended the run, or NoExc
    net,        \* requests issued so far, by endpoint; urls: the /TestRuns/{id} URLs asked for
    path_kind,  \* what the local XML path resolves to
    mode,       \* MODE (New, My) / the answer to the mode prompt (Inspire)
    catalog,    \* payload of GET /ExecutableTestSuites
    suites,     \* validatorInpire.py: the flattened suite list
    suite_id,
    test_object,
    resp,       \* start_test_run: the run-creation response
    run_id,
    start,      \* wait_until_finished: time.time() at entry
    now,        \* the wall clock
    js,         \* the status reply being decoded
    status,     \* wait_until_finished: the status of the last poll
    result,     \* the value wait_until_finished returned
    files,      \* local storage: what report_{id}.html holds, by run id
    polls,      \* status requests made by the current call
    req_time,   \* time spent inside the status requests of the current call
    term_seen,  \* polls of the current call that produced a terminal status
    calls,      \* calls of wait_until_finished made so far
    pair,       \* the two poll loops run side by side (SpecPair)
    timeout     \* the value of POLL_TIMEOUT in the script's configuration block

vars == <<script, entry, service, pc, exc, net, path_kind, mode, catalog, suites,
          suite_id, test_object, resp, run_id, start, now, js, status, result,
          files, polls, req_time, term_seen, calls, pair,
          timeout>>

cfgVars == <<script, entry, service, path_kind, pair, timeout>>
mainVars == <<mode, catalog, suites, suite_id, test_object, resp, run_id, files>>
waitVars == <<start, now, js, status, result, polls, req_time, term_seen, calls>>

\* the loop's test   (time.time() - start) > POLL_TIMEOUT, with the value
\* POLL_TIMEOUT has in the script
DeadlinePassedInclusive(elapsed) == elapsed >= timeout
DeadlinePassed(elapsed) == elapsed > timeout

\* the order of the two tests: the deadline is looked at only when the status
\* is not terminal
TimeoutFirst(s, st, elapsed) == DeadlinePassed(elapsed)
RaisesTimeout(s, st, elapsed) == ~IsFinished(s, st) /\ DeadlinePassed(elapsed)

NoExc == [type |-> "none", op |-> "none"]
NoNet == [catalog |-> 0, upload |-> 0, submit |-> 0, status |-> 0, report |-> 0,
          urls |-> {}]
\* f"{API}/TestRuns/{run_id}.json" and f"{API}/TestRuns/{run_id}.html"
StatusUrl(id) == <<"TestRuns", id, "json">>
ReportUrl(id) == <<"TestRuns", id, "html">>
NetTotal == net.catalog + net.upload + net.submit + net.status + net.report
NoStatus == "<unset>"
NoId == "<unset>"
NoObject == [kind |-> "none", ref |-> NoId]
NoCatalog == [form |-> "unset", entries |-> <<>>]
NoResp == [nested |-> NoMember, id |-> Absent, testRunId |-> Absent]

\* Where a loop stands: still polling, or ended with a returned status, an
\* exception, or blocked in a request that never returns.
Outcome(kind, v) == [kind |-> kind, v |-> v]
Running == Outcome("running", "none")
Loop(n, out) == [polls |-> n, out |-> out]
\* t: seconds since both loops took start = time.time(); late: some reply
\* so far took longer than HTTP_TIMEOUT or never came
NoPair == [t |-> 0, late |-> FALSE, New |-> Loop(0, Running), Inspire |-> Loop(0, Running)]

\* None of the scripts catches an exception: it ends the process.
OnErrorRetrySubmit(op) == IF op = "start_test_run" THEN "submit" ELSE "raised"
OnErrorReportAnyway(op) == IF op = "wait_until_finished" THEN "report" ELSE "raised"
OnErrorRetryStatus(op) == IF op = "get_test_run_status" THEN "poll" ELSE "raised"
OnError(op) == "raised"

Raise(type, op) ==
    /\ pc' = OnError(op)
    /\ exc' = [type |-> type, op |-> op]

\* ------------------------------------------------------------ poll loop
\* wait_until_finished: start = time.time()
WaitStart ==
    /\ pc = "wait"
    /\ pc' = "poll"
    /\ start' = now
    /\ calls' = calls + 1
    /\ polls' = 0
    /\ req_time' = 0
    /\ term_seen' = 0
    /\ UNCHANGED <<cfgVars, mainVars, exc, net, now, js, status, result>>

\* get_test_run_status: the request is answered 2xx with a JSON object
StatusRequestOk ==
    /\ pc = "poll"
    /\ \E d \in Latencies(script, service), r \in RepliesOf(service) :
          /\ now' = now + d
          /\ req_time' = req_time + d
          /\ js' = r
    /\ net' = [net EXCEPT !.status = @ + 1, !.urls = @ \cup {StatusUrl(run_id)}]
    /\ polls' = polls + 1
    /\ pc' = "got"
    /\ UNCHANGED <<cfgVars, mainVars, exc, start, status, result, term_seen, calls>>

\* get_test_run_status: the request fails (no answer, or raise_for_status)
StatusRequestFails ==
    /\ pc = "poll"
    /\ service.run = "ANY"
    /\ \E d \in Latencies(script, service), t \in {"HTTPError", "ConnectionError"} :
          /\ now' = now + d
          /\ req_time' = req_time + d
          /\ Raise(t, "get_test_run_status")
    /\ net' = [net EXCEPT !.status = @ + 1, !.urls = @ \cup {StatusUrl(run_id)}]
    /\ polls' = polls + 1
    /\ UNCHANGED <<cfgVars, mainVars, start, js, status, result, term_seen, calls>>

\* get_test_run_status: the service never answers, and requests.get, given
\* no timeout, never returns (like a failed request, something the service
\* does while the run is not yet known to be terminal)
StatusRequestHangs ==
    /\ pc = "poll"
    /\ service.run = "ANY"
    /\ ~HasTimeout(script)
    /\ pc' = "hung"
    /\ net' = [net EXCEPT !.status = @ + 1, !.urls = @ \cup {StatusUrl(run_id)}]
    /\ polls' = polls + 1
    /\ UNCHANGED <<cfgVars, mainVars, exc, start, now, js, status, result,
                   req_time, term_seen, calls>>

\* the status is read out of the reply: in New inside get_test_run_status,
\* whose local js is gone when it returns; in Inspire in the loop, where js
\* stays until the next poll
DecodeStatus ==
    /\ pc = "got"
    /\ LET s == StatusOf(script, js) IN
          IF s = AttrErr
          THEN /\ Raise("AttributeError", "status")
               /\ UNCHANGED <<status, term_seen>>
          ELSE /\ pc' = "check"
               /\ status' = s
               /\ term_seen' = IF TerminalReply(s) THEN term_seen + 1 ELSE term_seen
               /\ exc' = exc
    /\ js' = IF script = "New" THEN NoJs ELSE js
    /\ UNCHANGED <<cfgVars, mainVars, net, start, now, result, polls, req_time, calls>>

\* status.upper() on a value that is no string
UpperFails ==
    /\ pc = "check"
    /\ UpperRaises(script, status)
    /\ Raise("AttributeError", "upper")
    /\ UNCHANGED <<cfgVars, mainVars, waitVars, net>>

\* return status
ReturnStatus ==
    /\ pc = "check"
    /\ ~UpperRaises(script, status)
    /\ IsFinished(script, status)
    /\ result' = status
    /\ pc' = IF entry = "main" THEN "report" ELSE "returned"
    /\ UNCHANGED <<cfgVars, mainVars, exc, net, start, now, js, status, polls,
                   req_time, term_seen, calls>>

\* raise TimeoutError
RaiseTimeout ==
    /\ pc = "check"
    /\ ~UpperRaises(script, status)
    /\ RaisesTimeout(script, status, now - start)
    /\ Raise("TimeoutError", "wait_until_finished")
    /\ UNCHANGED <<cfgVars, mainVars, waitVars, net>>

\* time.sleep(POLL_EVERY)
Sleep ==
    /\ pc = "check"
    /\ ~UpperRaises(script, status)
    /\ ~IsFinished(script, status)
    /\ ~DeadlinePassed(now - start)
    /\ now' = now + POLL_EVERY
    /\ pc' = "poll"
    /\ UNCHANGED <<cfgVars, mainVars, exc, net, start, js, status, result, polls,
                   req_time, term_seen, calls>>

\* the caller calls wait_until_finished again on the same, terminal, run
CallAgain ==
    /\ pc = "returned"
    /\ entry = "wait"
    /\ service.run # "ANY"
    /\ calls < MaxCalls
    /\ pc' = "wait"
    /\ UNCHANGED <<cfgVars, mainVars, waitVars, exc, net>>

\* ------------------------------------------------------------ local file
PathKinds == {"file", "missing", "dir", "unreadable"}

\* os.path.isfile(path)
IsFile(k) == k \in {"file", "unreadable"}

\* open(path, "rb"): "ok" or the OSError it raises
OpenResultUnchecked(k) == "ok"
OpenResult(k) ==
    CASE k = "file"       -> "ok"
      [] k = "missing"    -> "FileNotFoundError"
      [] k = "dir"        -> "IsADirectoryError"
      [] k = "unreadable" -> "PermissionError"

\* ------------------------------------------------------------ suite catalog
Suite(id, label) == [id |-> id, label |-> label]
TargetLabel == "Conformance Class 2b"

\* payload of GET /ExecutableTestSuites: the executableTestSuites block is
\* missing ("missing"), or is there without its ExecutableTestSuite member
\* ("blockonly"), or the member is a single object or an array
CatalogPayloads ==
    {[form |-> "missing", entries |-> <<>>],
     [form |-> "blockonly", entries |-> <<>>],
     [form |-> "single", entries |-> <<Suite("EID1", TargetLabel)>>],
     [form |-> "array", entries |-> <<>>],
     [form |-> "array", entries |-> <<Suite("EID1", TargetLabel), Suite("EID2", "Other")>>],
     [form |-> "array", entries |-> <<Suite("EID1", TargetLabel), Suite("EID2", TargetLabel)>>]}

\* get_executable_test_suites: entries = ets_block.get("ExecutableTestSuite")
\* or ets_block; a dict becomes [dict]; each entry becomes {id, label, ...}
\* (so the block itself is taken for a suite when the member is missing or
\* an empty array)
FlattenSuites(p) ==
    CASE p.form = "missing"   -> <<>>
      [] p.form = "blockonly" -> <<Suite(None, "")>>
      [] p.form = "single"    -> p.entries
      [] p.form = "array"     -> IF p.entries = <<>>
                                 THEN <<Suite(None, "")>>
                                 ELSE p.entries

\* get_test_suite_ids_safe: the ids of the entries that have one
RECURSIVE SuiteIdsSafe(_)
SuiteIdsSafe(entries) ==
    IF entries = <<>> THEN <<>>
    ELSE (IF Truthy(Head(entries).id) THEN <<Head(entries).id>> ELSE <<>>)
         \o SuiteIdsSafe(Tail(entries))

\* create_test_suite_lookup and IDs_info[label]: the id, or the exception
\* (a dict comprehension keeps the last entry of a repeated key)
LookupLabel(p, label) ==
    CASE p.form \in {"missing", "blockonly"} -> "KeyError"
      [] p.form = "single" -> "TypeError"
      [] p.form = "array"  ->
            LET hits == {i \in 1..Len(p.entries) : p.entries[i].label = label}
            IN  IF hits = {} THEN "KeyError"
                ELSE p.entries[CHOOSE i \in hits : \A j \in hits : j <= i].id

\* ------------------------------------------------------------ run creation
RunResponse(nested, id, trid) == [nested |-> nested, id |-> id, testRunId |-> trid]
IdValues == {"RUN1", "RUN2", "", Absent}

\* 2xx replies to POST /TestRuns: the nested path
\* EtfItemCollection.testRuns.TestRun.id and the flat keys id, testRunId
RunResponses ==
    {RunResponse(n, i, t) :
        n \in {Member("dict", v) : v \in IdValues}
              \cup {NoMember, Member("list", "RUN1")},
        i \in IdValues, t \in IdValues}

\* run_id = nested or resp.get("id") or resp.get("testRunId")
RunIdOf(r) ==
    LET a == GetNested(r.nested)
        b == Get(r.id)
    IN  IF a = AttrErr THEN AttrErr
        ELSE IF Truthy(a) THEN a
        ELSE IF Truthy(b) THEN b
        ELSE Get(r.testRunId)

\* the ids a run can get
RunIds == {v \in IdValues : Truthy(v)}

Uploaded(id) == [kind |-> "Uploaded", ref |-> id]
RemoteData == [kind |-> "RemoteData", ref |-> "REMOTE_XML_URL"]
ServiceEndpoint == [kind |-> "ServiceEndpoint", ref |-> "SERVICE_ENDPOINT"]

\* ------------------------------------------------------------ New_Validatoe_Inspiah.py, main
\* suite_id = input(...).strip(); empty: SystemExit
NewInput ==
    /\ pc = "new_input"
    /\ \E s \in {"EID1", ""} :
          /\ suite_id' = s
          /\ IF s = ""
             THEN Raise("SystemExit", "input")
             ELSE pc' = "new_mode" /\ exc' = exc
    /\ UNCHANGED <<cfgVars, waitVars, net, mode, catalog, suites, test_object,
                   resp, run_id, files>>

\* the test object is built from MODE
NewTestObject ==
    /\ pc = "new_mode"
    /\ CASE mode = "local" ->
              IF IsFile(path_kind)
              THEN pc' = "upload" /\ exc' = exc /\ test_object' = test_object
              ELSE Raise("FileNotFoundError", "isfile") /\ test_object' = test_object
         [] mode = "remote" ->
              pc' = "submit" /\ exc' = exc /\ test_object' = RemoteData
         [] mode = "service" ->
              pc' = "submit" /\ exc' = exc /\ test_object' = ServiceEndpoint
         [] OTHER ->
              Raise("ValueError", "mode") /\ test_object' = test_object
    /\ UNCHANGED <<cfgVars, waitVars, net, mode, catalog, suites, suite_id,
                   resp, run_id, files>>

\* ------------------------------------------------------------ validatorInpire.py, main
\* get_executable_test_suites, at import (line 155) and again in main (162)
GetSuites ==
    /\ pc \in {"ins_import", "ins_fetch"}
    /\ net' = [net EXCEPT !.catalog = @ + 1]
    /\ \/ /\ Raise("HTTPError", "get_executable_test_suites")
          /\ UNCHANGED <<catalog, suites>>
       \/ \E p \in CatalogPayloads :
             /\ catalog' = p
             /\ suites' = FlattenSuites(p)
             /\ pc' = IF pc = "ins_import" THEN "ins_fetch" ELSE "ins_choose"
             /\ exc' = exc
    /\ UNCHANGED <<cfgVars, waitVars, mode, suite_id, test_object,
                   resp, run_id, files>>

\* the suite is picked by number, or its id is pasted
InspireChoose ==
    /\ pc = "ins_choose"
    /\ \/ \E pasted \in {"EID1", ""} :
             suite_id' = pasted /\ pc' = "ins_mode" /\ exc' = exc
       \/ \E idx \in 1..2 :
             IF idx <= Len(suites)
             THEN suite_id' = suites[idx].id /\ pc' = "ins_mode" /\ exc' = exc
             ELSE suite_id' = suite_id /\ Raise("IndexError", "choice")
       \/ suite_id' = suite_id /\ Raise("ValueError", "choice")
    /\ UNCHANGED <<cfgVars, waitVars, net, mode, catalog, suites, test_object,
                   resp, run_id, files>>

\* the answer to the mode prompt: "1" local file, "2" remote URL, anything
\* else a service endpoint
InspireMode ==
    /\ pc = "ins_mode"
    /\ \E m \in {"1", "2", "3", "x"} :
          /\ mode' = m
          /\ CASE m = "1" -> pc' = "upload" /\ test_object' = test_object
               [] m = "2" -> pc' = "submit" /\ test_object' = RemoteData
               [] OTHER   -> pc' = "submit" /\ test_object' = ServiceEndpoint
    /\ UNCHANGED <<cfgVars, waitVars, exc, net, catalog, suites, suite_id,
                   resp, run_id, files>>

\* ------------------------------------------------------------ shared by New and Inspire
\* upload_local_xml: open(path), POST /TestObjects?action=upload,
\* raise_for_status, payload["testObject"]["id"]
UploadLocalXml ==
    /\ pc = "upload"
    /\ IF OpenResult(path_kind) # "ok"
       THEN /\ Raise(OpenResult(path_kind), "open")
            /\ UNCHANGED <<net, test_object>>
       ELSE /\ net' = [net EXCEPT !.upload = @ + 1]
            /\ \/ Raise("HTTPError", "upload_local_xml") /\ test_object' = test_object
               \/ Raise("KeyError", "upload_local_xml") /\ test_object' = test_object
               \/ /\ test_object' = Uploaded("TO1")
                  /\ pc' = "submit"
                  /\ exc' = exc
    /\ UNCHANGED <<cfgVars, waitVars, mode, catalog, suites, suite_id, resp,
                   run_id, files>>

\* start_test_run: POST /TestRuns, raise_for_status, resp = r.json()
SubmitRequest ==
    /\ pc = "submit"
    /\ net' = [net EXCEPT !.submit = @ + 1]
    /\ \/ Raise("HTTPError", "start_test_run") /\ resp' = resp
       \/ \E r \in RunResponses :
             resp' = r /\ pc' = "submitted" /\ exc' = exc
    /\ UNCHANGED <<cfgVars, waitVars, mode, catalog, suites, suite_id,
                   test_object, run_id, files>>

\* start_test_run: the id is read out of resp; none: RuntimeError(resp)
ExtractRunId ==
    /\ pc = "submitted"
    /\ LET id == RunIdOf(resp) IN
          CASE id = AttrErr ->
                 Raise("AttributeError", "start_test_run") /\ UNCHANGED <<run_id, resp>>
            [] id # AttrErr /\ ~Truthy(id) ->
                 Raise("RuntimeError", "start_test_run") /\ UNCHANGED <<run_id, resp>>
            [] OTHER ->
                 run_id' = id /\ resp' = NoResp /\ pc' = "wait" /\ exc' = exc
    /\ UNCHANGED <<cfgVars, waitVars, net, mode, catalog, suites, suite_id,
                   test_object, files>>

\* ------------------------------------------------------------ report file
\* report_{id}.html is not there, holds what an earlier run left, or holds
\* the report this run downloaded
FileContents == {"absent", "old", "report"}
NoFiles == [id \in RunIds |-> "absent"]

\* out_file = f"report_{run_id}.html": the file is named by the run id
ReportFileFixed(id) == "RUN1"
ReportFile(id) == id

\* download_report_html: r.raise_for_status() comes before
\* open(out_path, "wb"): the file is opened and written only on a 2xx reply
WriteBeforeStatus(ok, fs, id) == [fs EXCEPT ![id] = "report"]
WriteAfterStatus(ok, fs, id) == IF ok THEN [fs EXCEPT ![id] = "report"] ELSE fs

\* download_report_html: GET /TestRuns/{id}.html, raise_for_status, write
DownloadReport ==
    /\ pc = "report"
    /\ net' = [net EXCEPT !.report = @ + 1, !.urls = @ \cup {ReportUrl(run_id)}]
    /\ \/ /\ Raise("HTTPError", "download_report_html")
          /\ files' = WriteAfterStatus(FALSE, files, ReportFile(run_id))
       \/ /\ files' = WriteAfterStatus(TRUE, files, ReportFile(run_id))
          /\ pc' = "done"
          /\ exc' = exc
    /\ UNCHANGED <<cfgVars, waitVars, mode, catalog, suites, suite_id,
                   test_object, resp, run_id>>

\* ------------------------------------------------------------ my_validator.py, module body
\* requests.get(url) and response.json(), with no raise_for_status
MyFetch ==
    /\ pc = "my_fetch"
    /\ net' = [net EXCEPT !.catalog = @ + 1]
    /\ \E p \in CatalogPayloads : catalog' = p
    /\ pc' = "my_lookup"
    /\ UNCHANGED <<cfgVars, waitVars, exc, mode, suites, suite_id, test_object,
                   resp, run_id, files>>

\* IDs_info = create_test_suite_lookup(...); suite_id = IDs_info[label]
MyLookup ==
    /\ pc = "my_lookup"
    /\ LET r == LookupLabel(catalog, TargetLabel) IN
          IF r \in {"KeyError", "TypeError"}
          THEN Raise(r, "create_test_suite_lookup") /\ suite_id' = suite_id
          ELSE suite_id' = r /\ pc' = "my_upload" /\ exc' = exc
    /\ UNCHANGED <<cfgVars, waitVars, net, mode, catalog, suites, test_object,
                   resp, run_id, files>>

\* open(LOCAL_XML_PATH), POST upload, upload_json["testObject"]["id"]
MyUpload ==
    /\ pc = "my_upload"
    /\ IF OpenResult(path_kind) # "ok"
       THEN /\ Raise(OpenResult(path_kind), "open")
            /\ UNCHANGED <<net, test_object>>
       ELSE /\ net' = [net EXCEPT !.upload = @ + 1]
            /\ \/ Raise("KeyError", "upload") /\ test_object' = test_object
               \/ /\ test_object' = Uploaded("TO1")
                  /\ pc' = "done"
                  /\ exc' = exc
    /\ UNCHANGED <<cfgVars, waitVars, mode, catalog, suites, suite_id, resp,
                   run_id, files>>

\* ------------------------------------------------------------ specification of the scripts
StartPc(s) ==
    CASE s = "New"     -> "new_input"
      [] s = "Inspire" -> "ins_import"
      [] s = "My"      -> "my_fetch"

Modes(s) ==
    CASE s = "New"     -> {"local", "remote", "service", "other"}
      [] s = "Inspire" -> {"unset"}
      [] s = "My"      -> {"local"}

\* The scripts from their first statement.  The service here answers every
\* status request slowly, so that the deadline is reached within a few
\* polls; the poll loop under both latencies is SpecWait.  Local storage
\* holds no report file yet, or the report files earlier runs left.
Init ==
    /\ script \in {"New", "Inspire", "My"}
    /\ entry = "main"
    /\ service = Service("ANY", TRUE)
    /\ pc = StartPc(script)
    /\ exc = NoExc
    /\ net = NoNet
    /\ path_kind \in PathKinds
    /\ mode \in Modes(script)
    /\ catalog = NoCatalog
    /\ suites = <<>>
    /\ suite_id = NoId
    /\ test_object = NoObject
    /\ resp = NoResp
    /\ run_id = NoId
    /\ start = 0
    /\ now = 0
    /\ js = NoJs
    /\ status = NoStatus
    /\ result = NoStatus
    /\ files \in {[id \in RunIds |-> c] : c \in FileContents \ {"report"}}
    /\ polls = 0
    /\ req_time = 0
    /\ term_seen = 0
    /\ calls = 0
    /\ pair = NoPair
    /\ timeout = POLL_TIMEOUT

Next ==
    \/ NewInput
    \/ NewTestObject
    \/ GetSuites
    \/ InspireChoose
    \/ InspireMode
    \/ UploadLocalXml
    \/ SubmitRequest
    \/ ExtractRunId
    \/ DownloadReport
    \/ MyFetch
    \/ MyLookup
    \/ MyUpload
    \/ WaitStart
    \/ StatusRequestOk
    \/ StatusRequestFails
    \/ StatusRequestHangs
    \/ DecodeStatus
    \/ UpperFails
    \/ ReturnStatus
    \/ RaiseTimeout
    \/ Sleep

Spec == Init /\ [][Next]_vars

\* ------------------------------------------------------------ specification of the poll loop
\* wait_until_finished("RUN1") called directly, against a run whose status
\* the service decides at each poll, or against a run that is already
\* terminal (and then called up to MaxCalls times).
WaitEntry ==
    /\ script \in {"New", "Inspire"}
    /\ entry = "wait"
    /\ service \in {Service("ANY", FALSE)}
                   \cup {Service(t, FALSE) : t \in {"COMPLETED", "FAILED", "completed"}}
    /\ pc = "wait"
    /\ exc = NoExc
    /\ net = NoNet
    /\ path_kind = "file"
    /\ mode = "local"
    /\ catalog = NoCatalog
    /\ suites = <<>>
    /\ suite_id = NoId
    /\ test_object = NoObject
    /\ resp = NoResp
    /\ run_id = "RUN1"
    /\ start = 0
    /\ now = 0
    /\ js = NoJs
    /\ status = NoStatus
    /\ result = NoStatus
    /\ files = NoFiles
    /\ polls = 0
    /\ req_time = 0
    /\ term_seen = 0
    /\ calls = 0
    /\ pair = NoPair

InitWait == WaitEntry /\ timeout = POLL_TIMEOUT

NextWait ==
    \/ WaitStart
    \/ StatusRequestOk
    \/ StatusRequestFails
    \/ StatusRequestHangs
    \/ DecodeStatus
    \/ UpperFails
    \/ ReturnStatus
    \/ RaiseTimeout
    \/ Sleep
    \/ CallAgain

SpecWait == InitWait /\ [][NextWait]_vars

\* ------------------------------------------------------------ specification of the deadline
\* The poll loop as in SpecWait, in a script whose configuration block sets
\* POLL_TIMEOUT to 25 * 60 or to 0.
InitDeadline == WaitEntry /\ timeout \in {0, POLL_TIMEOUT}

SpecDeadline == InitDeadline /\ [][NextWait]_vars

\* ------------------------------------------------------------ the two poll loops side by side
\* what the service does with a status request: answer it 2xx after d
\* seconds, answer it non-2xx, or never answer
PairLatencies == {0, HTTP_TIMEOUT, SlowLatency}

\* One pass of the while loop of script s, t seconds after its start:
\* the request (which a script that passes timeout= gives up after
\* HTTP_TIMEOUT seconds), the status read out of the reply, the test for a
\* terminal status, the test of the deadline.
LoopPass(s, l, t, kind, d, r) ==
    IF l.out # Running THEN l
    ELSE LET n == l.polls + 1
             st == StatusOf(s, r)
         IN  CASE kind = "silence" ->
                    IF HasTimeout(s)
                    THEN Loop(n, Outcome("raised", "ConnectionError"))
                    ELSE Loop(n, Outcome("hung", "none"))
               [] kind = "error" -> Loop(n, Outcome("raised", "HTTPError"))
               [] kind = "reply" /\ HasTimeout(s) /\ d > HTTP_TIMEOUT ->
                    Loop(n, Outcome("raised", "ConnectionError"))
               [] OTHER ->
                    IF st = AttrErr \/ UpperRaises(s, st)
                    THEN Loop(n, Outcome("raised", "AttributeError"))
                    ELSE IF IsFinished(s, st)
                    THEN Loop(n, Outcome("returned", st))
                    ELSE IF RaisesTimeout(s, st, t + d)
                    THEN Loop(n, Outcome("raised", "TimeoutError"))
                    ELSE Loop(n, Running)

\* both loops make their next pass on the same service behaviour, and
\* sleep POLL_EVERY if they go on
PairPass(kind, d, r) ==
    /\ pc = "pair"
    /\ pair.New.out = Running \/ pair.Inspire.out = Running
    /\ LET new == LoopPass("New", pair.New, pair.t, kind, d, r)
           inspire == LoopPass("Inspire", pair.Inspire, pair.t, kind, d, r)
       IN  pair' = [t |-> IF Running \in {new.out, inspire.out}
                          THEN pair.t + d + POLL_EVERY
                          ELSE pair.t,
                    late |-> pair.late \/ kind = "silence" \/ d > HTTP_TIMEOUT,
                    New |-> new,
                    Inspire |-> inspire]
    /\ UNCHANGED <<script, entry, service, path_kind, timeout, pc, exc, net,
                   mainVars, waitVars>>

PairReply == \E d \in PairLatencies, r \in StatusReplies : PairPass("reply", d, r)
PairError == PairPass("error", 0, NoJs)
PairSilence == PairPass("silence", 0, NoJs)

\* Both loops have just taken start = time.time(); only pair changes, the
\* variables of the single-script specifications keep their initial values.
InitPair ==
    /\ script = "New"
    /\ entry = "pair"
    /\ service = Service("ANY", FALSE)
    /\ pc = "pair"
    /\ exc = NoExc
    /\ net = NoNet
    /\ path_kind = "file"
    /\ mode = "local"
    /\ catalog = NoCatalog
    /\ suites = <<>>
    /\ suite_id = NoId
    /\ test_object = NoObject
    /\ resp = NoResp
    /\ run_id = "RUN1"
    /\ start = 0
    /\ now = 0
    /\ js = NoJs
    /\ status = NoStatus
    /\ result = NoStatus
    /\ files = NoFiles
    /\ polls = 0
    /\ req_time = 0
    /\ term_seen = 0
    /\ calls = 0
    /\ pair = NoPair
    /\ timeout = POLL_TIMEOUT

NextPair ==
    \/ PairReply
    \/ PairError
    \/ PairSilence

SpecPair == InitPair /\ [][NextPair]_vars

\* ------------------------------------------------------------ claims
CeilDiv(a, b) == (a + b - 1) \div b

\* C1: once a poll of a call has produced a terminal status, the call does
\* not raise TimeoutError: it is at the loop's test or has returned exactly
\* that status, whatever the clock says.
C1_NoTimeoutAfterTerminal ==
    term_seen >= 1 =>
        /\ exc = NoExc
        /\ pc \in {"check", "returned", "wait"}
        /\ pc # "check" => result = status

\* a terminal status polled after the deadline had passed was returned
C1_Witness ==
    /\ pc = "returned"
    /\ term_seen = 1
    /\ polls > 1
    /\ now - start > POLL_TIMEOUT

\* C2 (as stated): TimeoutError is raised only after at least
\* ceil(POLL_TIMEOUT / POLL_EVERY) polls.
C2_Original ==
    exc.type = "TimeoutError" => polls >= CeilDiv(POLL_TIMEOUT, POLL_EVERY)

\* C2 (amended): when TimeoutError is raised, more than POLL_TIMEOUT seconds
\* have passed since the call began, at least one poll was made, the elapsed
\* time is the polls' sleeps plus the time spent in the status requests, and
\* the bound ceil(POLL_TIMEOUT / POLL_EVERY) on the polls holds when the
\* requests took no time.
C2_TimeoutAfterDeadline ==
    exc.type = "TimeoutError" =>
        /\ now - start > POLL_TIMEOUT
        /\ polls >= 1
        /\ now - start = (polls - 1) * POLL_EVERY + req_time
        /\ req_time = 0 => polls >= CeilDiv(POLL_TIMEOUT, POLL_EVERY)

\* the deadline was hit with requests that took no time
C2_Witness ==
    /\ exc.type = "TimeoutError"
    /\ req_time = 0
    /\ polls > CeilDiv(POLL_TIMEOUT, POLL_EVERY)

\* C3: the call returns on the first terminal reply: when it has returned,
\* exactly one poll (the last) produced a terminal status, which is the value
\* returned; and after a terminal reply no further status request is made.
C3_ReturnsOnFirstTerminal ==
    /\ pc = "returned" =>
          /\ term_seen = 1
          /\ polls >= 1
          /\ TerminalReply(result)
          /\ result = status
    /\ term_seen >= 1 => pc \in {"check", "returned", "wait"} /\ TerminalReply(status)
    /\ (pc = "check" /\ TerminalReply(status)) => ENABLED ReturnStatus
    /\ term_seen <= 1

\* RUNNING then COMPLETED: COMPLETED after exactly two polls
C3_Witness ==
    /\ pc = "returned"
    /\ result = "COMPLETED"
    /\ polls = 2
    /\ service.run = "ANY"

\* C4 (as stated): the call ends in one of four ways: COMPLETED returned,
\* FAILED returned, TimeoutError, or a failure of the status request.
C4_Original ==
    /\ pc = "returned" => result \in {"COMPLETED", "FAILED"}
    /\ pc = "raised" =>
          \/ exc.type = "TimeoutError"
          \/ exc.op = "get_test_run_status"

\* C5 (as stated): a 2xx run-creation response with a non-empty id at one of
\* the three paths makes start_test_run return an id found at one of them;
\* with none, it raises RuntimeError.
HasIdAt(r) ==
    {v \in {r.nested.v, r.id, r.testRunId} : Truthy(v)}
C5_Original ==
    [][pc = "submitted" =>
          IF HasIdAt(resp) # {}
          THEN pc' = "wait" /\ run_id' \in HasIdAt(resp)
          ELSE exc'.type = "RuntimeError" /\ run_id' = run_id]_vars

\* C6: at most one run-creation request is ever issued, and after
\* start_test_run has failed the process has ended: no request of any kind
\* follows.
C6_SubmitOnce ==
    /\ [](net.submit <= 1)
    /\ [](exc.op = "start_test_run" =>
             pc = "raised" /\ net.submit = 1 /\ net.status = 0 /\ net.report = 0)
    /\ [][exc.op = "start_test_run" => net' = net]_vars

\* start_test_run failed for want of an id
C6_Witness ==
    /\ exc.type = "RuntimeError"
    /\ exc.op = "start_test_run"
    /\ net.submit = 1

\* C7: a reply with no status at any of the three paths (the key missing, or
\* its value null or empty) is decoded without error to the unknown status
\* ("UNKNOWN" in New, a false value in Inspire), and on an unknown status the
\* loop neither returns nor fails: it sleeps and polls again, or times out.
NoneResolves(j) ==
    /\ j.TestRun.kind \in {"absent", "dict"}
    /\ j.EtfItem.kind \in {"absent", "dict"}
    /\ \A v \in {j.TestRun.v, j.status, j.EtfItem.v} : ~Truthy(v)
UnknownStatus(s) == IF s = "New" THEN {"UNKNOWN"} ELSE {None, ""}
C8_Original ==
    /\ pc = "check" =>
          status \in {"PENDING", "RUNNING", "COMPLETED", "FAILED", "UNKNOWN"}
    /\ pc \in {"returned", "report"} => result \in {"COMPLETED", "FAILED"}

\* C9: against a run that is already terminal, every call makes exactly one
\* status request and returns the run's status, no call fails, and nothing
\* but the call's own locals changes (no file is written).
C9_IdempotentOnTerminal ==
    service.run # "ANY" =>
        /\ exc = NoExc
        /\ pc \in {"wait", "poll", "got", "check", "returned"}
        /\ polls <= 1
        /\ pc = "returned" =>
              /\ result = service.run
              /\ polls = 1
              /\ net.status = calls
        /\ files = NoFiles
        /\ run_id = "RUN1"
        /\ NetTotal = net.status

\* the last of MaxCalls calls has returned FAILED
C9_Witness ==
    /\ service.run = "FAILED"
    /\ pc = "returned"
    /\ calls = MaxCalls
    /\ result = "FAILED"

CatalogFetches(s) ==
    CASE s = "New" -> 0 [] s = "Inspire" -> 2 [] s = "My" -> 1
C11_FailedReportTouchesNoFile ==
    /\ [][exc'.op = "download_report_html" => files' = files]_vars
    /\ [](exc.op = "download_report_html" =>
             /\ exc.type = "HTTPError"
             /\ pc = "raised"
             /\ net.report = 1
             /\ \A id \in RunIds : files[id] \in {"absent", "old"})

\* the report request failed while report_{id}.html held an earlier report
C11_Witness ==
    /\ exc.op = "download_report_html"
    /\ run_id \in RunIds
    /\ files[run_id] = "old"

\* C12 (as stated): for a payload in single-object, array or missing-key
\* form the catalog is the payload's suite entries, in the payload's order
\* and as many as the payload has (validatorInpire.py: the flattened list;
\* my_validator.py: the list of ids), and no exception is raised.
SuiteIdsOf(entries) == [i \in 1..Len(entries) |-> entries[i].id]
C12_Original ==
    catalog # NoCatalog =>
        /\ script = "Inspire" => suites = catalog.entries
        /\ script = "My" => SuiteIdsSafe(catalog.entries) = SuiteIdsOf(catalog.entries)
        /\ exc.op = "get_executable_test_suites" => exc.type = "HTTPError"

\* C13 (as stated): the lookup resolves a label to the id of the first suite,
\* in service order, that carries it, and a label no suite carries is no
\* fault.
LabelHits(entries, label) == {i \in 1..Len(entries) : entries[i].label = label}
C13_Original ==
    (script = "My" /\ catalog.form = "array") =>
        LET hits == LabelHits(catalog.entries, TargetLabel) IN
            /\ (hits # {} /\ suite_id # NoId) =>
                   suite_id = catalog.entries[CHOOSE i \in hits : \A j \in hits : i <= j].id
            /\ hits = {} => exc.op # "create_test_suite_lookup"

\* C14: the phases of a run come in order.  A status request is made only
\* once start_test_run has returned a run id (after the one run-creation
\* request); the report request is made, and the report file written, only
\* after a poll of the run produced a terminal status, which is the status
\* wait_until_finished returned; and after TimeoutError the process has
\* ended with no report request and no report file.
ReportWritten == \E id \in RunIds : files[id] = "report"
C14_PhasesInOrder ==
    /\ [][net'.status > net.status =>
             /\ pc = "poll"
             /\ run_id \in RunIds
             /\ net.submit = 1
             /\ net.report = 0]_vars
    /\ [][net'.report > net.report =>
             /\ pc = "report"
             /\ net.status >= 1
             /\ term_seen = 1
             /\ TerminalReply(status)
             /\ result = status]_vars
    /\ [][files' # files =>
             /\ net'.report > net.report
             /\ term_seen = 1
             /\ TerminalReply(result)]_vars
    /\ [](exc.type = "TimeoutError" =>
             pc = "raised" /\ net.report = 0 /\ ~ReportWritten /\ term_seen = 0)
    /\ [](net.report >= 1 => term_seen = 1 /\ TerminalReply(result))

\* the report was written after a non-terminal and then a terminal poll
C14_Witness ==
    /\ pc = "done"
    /\ ReportWritten
    /\ polls = 2
    /\ net.submit = 1
    /\ result = "FAILED"

\* C15: a status request that fails (no answer, or a non-2xx answer) ends
\* the run: the exception leaves wait_until_finished and the process, the
\* failed request is the last request of any kind, and no report is asked
\* for or written.
C15_StatusFailureAborts ==
    /\ [](exc.op = "get_test_run_status" =>
             /\ pc = "raised"
             /\ exc.type \in {"HTTPError", "ConnectionError"}
             /\ result = NoStatus
             /\ net.status = polls
             /\ net.report = 0
             /\ ~ReportWritten)
    /\ [][exc.op = "get_test_run_status" => net' = net /\ files' = files]_vars
    /\ [][(exc.op # "get_test_run_status" /\ exc'.op = "get_test_run_status") =>
             net'.status = net.status + 1 /\ pc = "poll"]_vars

\* the second status request of a run failed
C15_Witness ==
    /\ exc.op = "get_test_run_status"
    /\ exc.type = "ConnectionError"
    /\ polls = 2
    /\ pc = "raised"

\* C16 (as stated): wait_until_finished never waits forever on one request:
\* in every state the call has ended (a status returned, or an exception
\* raised) or it can take a further step.
C16_Original ==
    pc \in {"returned", "raised"} \/ ENABLED NextWait

\* C17: the run id never changes once start_test_run has returned it (it is
\* the id read out of the run-creation response); every status request asks
\* for /TestRuns/{id}.json and the report request for /TestRuns/{id}.html
\* with that id; and the one report file written is report_{id}.html.
C17_RunIdFixed ==
    /\ [][run_id # NoId => run_id' = run_id]_vars
    /\ [][run_id' # run_id => pc = "submitted" /\ run_id' = RunIdOf(resp)]_vars
    /\ [](net.urls \subseteq {StatusUrl(run_id), ReportUrl(run_id)})
    /\ [](net.status >= 1 => StatusUrl(run_id) \in net.urls /\ run_id \in RunIds)
    /\ [](net.report >= 1 => ReportUrl(run_id) \in net.urls)
    /\ [](\A id \in RunIds : files[id] = "report" => id = run_id)
    /\ [](pc = "done" /\ script # "My" => files[run_id] = "report")

\* the run got the id RUN2, and report_RUN2.html was written next to an
\* older report_RUN1.html
C17_Witness ==
    /\ pc = "done"
    /\ run_id = "RUN2"
    /\ files = [id \in RunIds |-> IF id = "RUN2" THEN "report" ELSE "old"]
    /\ net.urls = {StatusUrl("RUN2"), ReportUrl("RUN2")}

\* C18 (as stated): a run-creation request is issued only with a valid
\* configuration: the mode is one of the three the script knows, the suite
\* id sent is not empty, and the test object has one of the three variants.
KnownModes(s) == IF s = "New" THEN {"local", "remote", "service"} ELSE {"1", "2", "3"}
C18_Original ==
    (script \in {"New", "Inspire"} /\ net.submit >= 1) =>
        /\ mode \in KnownModes(script)
        /\ suite_id # NoId /\ Truthy(suite_id)
        /\ test_object.kind \in {"Uploaded", "RemoteData", "ServiceEndpoint"}

\* C19 (as stated): run side by side on the same replies and the same
\* clock, the two poll loops have made the same number of polls and are in
\* the same outcome (both still polling, both returned the same status, or
\* both raised the same exception) after every pass.
C19_Original ==
    pair.New = pair.Inspire

\* as long as every reply came within HTTP_TIMEOUT seconds, the two loops
\* agree
PairAgreeWithinTimeout ==
    ~pair.late => pair.New = pair.Inspire

\* C20: the deadline is looked at only after a poll that produced a
\* non-terminal status.  A call first makes a status request, whatever
\* POLL_TIMEOUT is (zero too), so a call that has ended has polled at least
\* once; TimeoutError is raised only from the loop's test right after a poll
\* whose status was not terminal, with the deadline passed; and a poll that
\* produced a terminal status makes the call return it, however long ago
\* the deadline passed.
C20_DeadlineAfterNonTerminalPoll ==
    /\ [][pc = "wait" => pc' = "poll" /\ exc' = NoExc]_vars
    /\ [](pc \in {"check", "returned", "raised", "hung"} => polls >= 1)
    /\ [][(exc.type # "TimeoutError" /\ exc'.type = "TimeoutError") =>
             /\ pc = "check"
             /\ polls >= 1
             /\ ~TerminalReply(status)
             /\ now - start > timeout]_vars
    /\ [][(pc = "check" /\ TerminalReply(status)) =>
             /\ pc' = "returned"
             /\ result' = status
             /\ exc' = NoExc]_vars

\* with POLL_TIMEOUT zero, the first poll took time and produced a terminal
\* status, and the call returned it
C20_Witness ==
    /\ timeout = 0
    /\ pc = "returned"
    /\ calls = 1
    /\ polls = 1
    /\ now - start > timeout
    /\ TerminalReply(result)

=============================================================================
